---- MODULE Spec2Model ----
(***************************************************************************)
(* AI Learning Gap Assistant (src/app.py): the Streamlit session state,    *)
(* the response logger, the revision-priority classifier, the summary      *)
(* builder and the JSON log file.                                          *)
(*                                                                         *)
(* Spec: one step is one run of the script, started by one UI event; a run *)
(*   that raises stops where it raised.  What a run renders (the summary   *)
(*   preview, the TXT and PDF downloads) is a function of the session      *)
(*   state and of the clock: summary_text(now), pdf_story(now).            *)
(* SpecNoFailure: the same runs, none of them raising.                     *)
(* SpecPriority: get_revision_priority applied to every input drawn.       *)
(* SpecConcurrent: two sessions in save_session on the one log file, each  *)
(*   step one of its file operations.                                      *)
(***************************************************************************)
EXTENDS Integers, Sequences, FiniteSets, TLC

\* ---------------------------------------------------------------- bounds
MaxQuestions == 1      \* QuestionRecords per session before the model stops asking
MaxRefinements == 1    \* refinements per session before the model stops refining
MaxConfidence == 1     \* confidence clicks per session before the model stops
MaxAppends == 1        \* records added to the log file before the model stops asking
MaxRefCount == 3       \* SpecPriority: largest refinement count drawn
MaxTrendLen == 3       \* SpecPriority: longest confidence history drawn
MaxSaves == 2          \* SpecConcurrent: save_session calls in all

\* ---------------------------------------------------------------- inputs
Topics == {"", "Fractions"}
Questions == {"What is 1/2?"}
Answers == {"a1", ""}            \* replies of the model; an empty reply is falsy
Subjects == {"Math"}
BloomLevels == {"Understand"}
Styles == {"Simple"}
ConfidenceLevels == {"High", "Medium", "Low"}
RefinementModes == {"simpler", "more_examples"}
Sessions == {1, 2}

None == "None"

VARIABLES
    chat_history,     \* st.session_state.chat_history
    meta_log,         \* st.session_state.meta_log
    confidence_log,   \* st.session_state.confidence_log
    last_answer,      \* st.session_state.last_answer
    session_topic,    \* st.session_state.session_topic
    session_active,   \* st.session_state.session_active
    data_file,        \* student_sessions.json
    initial_file,     \* what the file held when the process started
    ref_count,        \* get_revision_priority: argument ref_count
    conf_trend,       \* get_revision_priority: argument conf_trend
    priority,         \* get_revision_priority: the returned label, None before the call
    save_pc,          \* save_session: where each session is in its call
    save_data,        \* save_session: each session's local `data`
    save_entry,       \* save_session: each session's `entry`
    completed,        \* save_session: the entries of the calls that returned, in order
    overlapped        \* save_session: a call began while another was in progress

sessionVars == <<chat_history, meta_log, confidence_log, last_answer,
                 session_topic, session_active>>
classifierVars == <<ref_count, conf_trend, priority>>
saveVars == <<save_pc, save_data, save_entry, completed, overlapped>>
vars == <<chat_history, meta_log, confidence_log, last_answer, session_topic,
          session_active, data_file, initial_file, ref_count, conf_trend,
          priority, save_pc, save_data, save_entry, completed, overlapped>>

\* ------------------------------------------------------------ small helpers
Last(s) == s[Len(s)]

\* Python's truthiness of a str-or-None value
Truthy(x) == x # None /\ x # ""

\* datetime.datetime.now() to the minute, as strftime('%d-%m-%Y %H:%M') shows it
Instants == {0, 1}

\* the minutes the clock may show a moment after it showed t
Later(t) == {u \in Instants : t <= u /\ u <= t + 1}

\* str(datetime.datetime.now()): written to the records, read by nothing
Stamp == "now"

\* ---------------------------------------------------------- the log file
EmptyFile == [exists |-> TRUE, valid |-> TRUE, data |-> <<>>]

AbsentFile == [exists |-> FALSE, valid |-> TRUE, data |-> <<>>]

\* a file json.load cannot parse: what open(DATA_FILE, "w") leaves until
\* json.dump has written the whole array
UnparsableFile == [exists |-> TRUE, valid |-> FALSE, data |-> <<>>]

\* if not os.path.exists(DATA_FILE): json.dump([], f)
EnsureDataFile(f) == IF f.exists THEN f ELSE EmptyFile

\* a load that starts every call from an empty list
load_sessions_empty(f) == <<>>

\* lines 65-67
load_sessions(f) == f.data

\* with open(DATA_FILE, "w") as f: json.dump(data, f, indent=4)
WriteJson(data) == [exists |-> TRUE, valid |-> TRUE, data |-> data]

\* a save that writes the new entry alone
save_session_overwrite(f, entry) == WriteJson(<<entry>>)

\* lines 69-73, without interruption
save_session(f, entry) == WriteJson(Append(load_sessions(f), entry))

\* ------------------------------------------------------ generate_response
RECURSIVE TotalRefinements(_)
TotalRefinements(log) ==
    IF log = <<>> THEN 0
    ELSE Head(log).refinement_count + TotalRefinements(Tail(log))

NewEntry(topic, subject, bloom_level, style, question, answer) ==
    [timestamp |-> Stamp, topic |-> topic, subject |-> subject,
     bloom_level |-> bloom_level, style |-> style, question |-> question,
     response |-> answer, refinement_count |-> 0, refinements |-> <<>>]

NewRefinement(mode, answer) ==
    [timestamp |-> Stamp, mode |-> mode, response |-> answer]

ResponseTag(mode) ==
    IF mode = "primary" THEN "(v1 - Main Explanation)"
    ELSE IF mode = "simpler" THEN "(v2 - Simpler Explanation)"
    ELSE "(v2 - More Real-World Examples)"

StudentMessage(question) == [speaker |-> "Student", tag |-> "", text |-> question]

AssistantMessage(mode, answer) ==
    [speaker |-> "AI Assistant", tag |-> ResponseTag(mode), text |-> answer]

\* the defect the comment of lines 183-186 names: every call adds a Student message
AppendReply_EveryMode(history, mode, question, answer) ==
    history \o <<StudentMessage(question), AssistantMessage(mode, answer)>>

\* lines 187-191: the transcript after the reply
AppendReply(history, mode, question, answer) ==
    IF mode = "primary"
    THEN history \o <<StudentMessage(question), AssistantMessage(mode, answer)>>
    ELSE Append(history, AssistantMessage(mode, answer))

\* a refinement appended without counting it
LogRefinement_Uncounted(log, mode, answer) ==
    IF log # <<>>
    THEN [log EXCEPT ![Len(log)] =
            [@ EXCEPT !.refinements = Append(@, NewRefinement(mode, answer))]]
    ELSE log

\* lines 219-227: the record list after a refinement reply
LogRefinement(log, mode, answer) ==
    IF log # <<>>
    THEN [log EXCEPT ![Len(log)] =
            [@ EXCEPT !.refinement_count = @ + 1,
                      !.refinements = Append(@, NewRefinement(mode, answer))]]
    ELSE log

\* -------------------------------------------------- get_revision_priority
HIGH == "HIGH - Needs revision"
MEDIUM == "MEDIUM - Review recommended"
LOW == "LOW - Concept understood"

In(x, list) == \E i \in 1..Len(list) : list[i] = x

\* a classifier that looks at the latest feedback only
get_revision_priority_latest(rc, trend) ==
    LET latest == IF trend = <<>> THEN "" ELSE trend[Len(trend)]
    IN IF rc >= 2 \/ latest = "Low" THEN HIGH
       ELSE IF rc = 1 \/ latest = "Medium" THEN MEDIUM
       ELSE LOW

get_revision_priority(rc, trend) ==
    IF rc >= 2 \/ In("Low", trend) THEN HIGH
    ELSE IF rc = 1 \/ In("Medium", trend) THEN MEDIUM
    ELSE LOW

\* ------------------------------------------------------- generate_summary
\* One line of the summary text: which line of the template it is and the
\* values the template puts in it.
Ln(kind, s, n, trend) == [kind |-> kind, s |-> s, n |-> n, trend |-> trend]

Blank == Ln("blank", "", 0, <<>>)

Fixed(kind) == Ln(kind, "", 0, <<>>)

\* " -> ".join(confidence_log) or "No feedback submitted"
JoinTrend(log) == IF log = <<>> THEN <<"No feedback submitted">> ELSE log

NoQuestionsText == <<Fixed("No questions asked yet.")>>

SummaryHeader(log, conf, topic, now) ==
    <<Blank,
      Fixed("AI Learning Session Summary"),
      Blank,
      Ln("Session Topic", topic, 0, <<>>),
      Ln("Date", "", now, <<>>),
      Blank,
      Ln("Total Questions", "", Len(log), <<>>),
      Ln("Confidence Trend", "", 0, JoinTrend(conf)),
      Blank,
      Blank,
      Fixed("Questions & Learning Attempts:")>>

\* a label chosen by a mode name the buttons never send
RefinementLabel_WrongMode(mode) ==
    IF mode = "simple" THEN "Simpler Explanation" ELSE "More Examples"

RefinementLabel(mode) ==
    IF mode = "simpler" THEN "Simpler Explanation" ELSE "More Examples"

\* for i, ref in enumerate(entry["refinements"], start=2)
RECURSIVE RefinementSections(_, _)
RefinementSections(refs, i) ==
    IF refs = <<>> THEN <<>>
    ELSE <<Blank,
           Ln("Answer Version", RefinementLabel(Head(refs).mode), i, <<>>),
           Ln("response", Head(refs).response, 0, <<>>)>>
         \o RefinementSections(Tail(refs), i + 1)

EntryBlock(entry, conf) ==
    <<Blank,
      Ln("Question", entry.question, 0, <<>>),
      Ln("Subject", entry.subject, 0, <<>>),
      Ln("Bloom Level", entry.bloom_level, 0, <<>>),
      Blank,
      Ln("Revision Priority",
         get_revision_priority(entry.refinement_count, conf), 0, <<>>),
      Blank,
      Ln("Answer Version", "Main Explanation", 1, <<>>),
      Ln("response", entry.response, 0, <<>>)>>
    \o RefinementSections(entry.refinements, 2)

RECURSIVE EntryBlocks(_, _)
EntryBlocks(log, conf) ==
    IF log = <<>> THEN <<>>
    ELSE EntryBlock(Head(log), conf) \o EntryBlocks(Tail(log), conf)

ReflectionNotes ==
    <<Blank,
      Fixed("Reflection Notes:"),
      Fixed("Revise HIGH-priority topics first"),
      Fixed("Use simpler mode when confidence is low"),
      Fixed("Use examples mode when concepts feel abstract"),
      Fixed("Attempt practice questions after revision"),
      Blank>>

\* the text as the list of its lines, text.split("\n")
generate_summary(log, conf, topic, now) ==
    IF log = <<>> THEN NoQuestionsText
    ELSE SummaryHeader(log, conf, topic, now)
         \o EntryBlocks(log, conf)
         \o ReflectionNotes

\* ------------------------------------------------------ export_pdf_buffer
\* line.strip() == "": an empty line, or a response line of an empty reply
IsBlankLine(line) ==
    line.kind = "blank" \/ (line.kind = "response" /\ line.s = "")

Spacer == [flowable |-> "Spacer", line |-> Blank]

Paragraph(line) == [flowable |-> "Paragraph", line |-> line]

BuildStory(text) ==
    [i \in 1..Len(text) |->
        IF IsBlankLine(text[i]) THEN Spacer ELSE Paragraph(text[i])]

NoPdf == <<>>

\* line 526: summary_text, shown as the preview and offered as the TXT
\* download, when generate_summary() runs at the instant now
summary_text(now) ==
    generate_summary(meta_log, confidence_log, session_topic, now)

\* lines 529-542 and 331: with a record the PDF is built, from the text of a
\* second generate_summary(), which runs at its own instant
pdf_story(now) ==
    IF meta_log # <<>>
    THEN BuildStory(generate_summary(meta_log, confidence_log, session_topic, now))
    ELSE NoPdf

\* ------------------------------------------------------------ the session
\* a record a previous process left in the file
OldEntry == NewEntry("", "Math", "Understand", "Simple", "Why?", "a1")

OldFile == [exists |-> TRUE, valid |-> TRUE, data |-> <<OldEntry>>]

ClassifierIdle ==
    /\ ref_count = 0
    /\ conf_trend = <<>>
    /\ priority = None

SaveIdle ==
    /\ save_pc = [s \in Sessions |-> "idle"]
    /\ save_data = [s \in Sessions |-> <<>>]
    /\ save_entry = [s \in Sessions |-> OldEntry]
    /\ completed = <<>>
    /\ overlapped = FALSE

\* lines 114-123, after the first run of the script (lines 61-63 and 526)
SessionInit ==
    /\ chat_history = <<>>
    /\ meta_log = <<>>
    /\ confidence_log = <<>>
    /\ last_answer = None
    /\ session_topic = ""
    /\ session_active = TRUE

Init ==
    /\ SessionInit
    /\ initial_file \in {AbsentFile, OldFile}
    /\ data_file = EnsureDataFile(initial_file)
    /\ ClassifierIdle
    /\ SaveIdle

\* what no run of the session's script touches
Frame == UNCHANGED <<initial_file, classifierVars, saveVars>>

\* lines 366-370: the topic field is read on every run
EditTopic ==
    /\ \E topic \in Topics :
          /\ topic # session_topic
          /\ session_topic' = topic
    /\ UNCHANGED <<chat_history, meta_log, confidence_log, last_answer,
                   session_active, data_file>>
    /\ Frame

\* lines 374-380
reset_session ==
    /\ chat_history' = <<>>
    /\ meta_log' = <<>>
    /\ confidence_log' = <<>>
    /\ last_answer' = None
    /\ session_active' = TRUE
    /\ UNCHANGED <<session_topic, data_file>>
    /\ Frame

\* an exit that clears the session as the reset does
exit_session_clearing ==
    /\ session_active' = FALSE
    /\ chat_history' = <<>>
    /\ meta_log' = <<>>
    /\ confidence_log' = <<>>
    /\ UNCHANGED <<last_answer, session_topic, data_file>>
    /\ Frame

\* lines 382-384
exit_session ==
    /\ session_active' = FALSE
    /\ UNCHANGED <<chat_history, meta_log, confidence_log, last_answer,
                   session_topic, data_file>>
    /\ Frame

\* lines 415-427 and 129-229, mode = "primary", nothing raises
AskQuestion ==
    /\ session_active
    /\ Len(meta_log) < MaxQuestions
    /\ Len(data_file.data) < Len(initial_file.data) + MaxAppends
    /\ data_file.valid
    /\ \E question \in Questions, subject \in Subjects, bloom_level \in BloomLevels,
          style \in Styles, answer \in Answers :
          LET entry == NewEntry(session_topic, subject, bloom_level, style,
                                question, answer)
          IN /\ chat_history' = AppendReply(chat_history, "primary", question, answer)
             /\ last_answer' = answer
             /\ meta_log' = Append(meta_log, entry)
             /\ data_file' = save_session(data_file, entry)
             /\ Frame
    /\ UNCHANGED <<confidence_log, session_topic, session_active>>

\* lines 168-173 raise: the request fails, or the reply has no choices
AskQuestionNoReply ==
    /\ session_active
    /\ Frame
    /\ UNCHANGED <<sessionVars, data_file>>

\* line 212 raises: load_sessions cannot parse the file, or open or json.dump
\* fails, and json.dump fails after open(..., "w") has truncated the file
AskQuestionSaveError ==
    /\ session_active
    /\ Len(meta_log) < MaxQuestions
    /\ \E question \in Questions, subject \in Subjects, bloom_level \in BloomLevels,
          style \in Styles, answer \in Answers :
          LET entry == NewEntry(session_topic, subject, bloom_level, style,
                                question, answer)
          IN /\ chat_history' = AppendReply(chat_history, "primary", question, answer)
             /\ last_answer' = answer
             /\ meta_log' = Append(meta_log, entry)
             /\ Frame
    /\ data_file' \in IF data_file.valid THEN {data_file, UnparsableFile}
                      ELSE {data_file}
    /\ UNCHANGED <<confidence_log, session_topic, session_active>>

\* lines 444-460
Confidence ==
    /\ Truthy(last_answer)
    /\ session_active
    /\ Len(confidence_log) < MaxConfidence
    /\ \E level \in ConfidenceLevels :
          confidence_log' = Append(confidence_log, level)
    /\ UNCHANGED <<chat_history, meta_log, last_answer, session_topic,
                   session_active, data_file>>
    /\ Frame

\* lines 466-484 and 129-229, mode = "simpler" or "more_examples"
Refine ==
    /\ session_active
    /\ Truthy(last_answer)
    /\ TotalRefinements(meta_log) < MaxRefinements
    /\ \E mode \in RefinementModes, answer \in Answers :
          /\ chat_history' = AppendReply(chat_history, mode, last_answer, answer)
          /\ last_answer' = answer
          /\ meta_log' = LogRefinement(meta_log, mode, answer)
          /\ UNCHANGED <<confidence_log, session_topic, session_active, data_file>>
          /\ Frame

RefineNoReply ==
    /\ session_active
    /\ Truthy(last_answer)
    /\ Frame
    /\ UNCHANGED <<sessionVars, data_file>>

\* lines 536-555: a download button reruns the script
Download ==
    /\ meta_log # <<>>
    /\ UNCHANGED <<sessionVars, data_file>>
    /\ Frame

NextOk ==
    \/ EditTopic
    \/ reset_session
    \/ exit_session
    \/ AskQuestion
    \/ Confidence
    \/ Refine
    \/ Download

Next ==
    \/ NextOk
    \/ AskQuestionNoReply
    \/ AskQuestionSaveError
    \/ RefineNoReply

Spec == Init /\ [][Next]_vars

SpecNoFailure == Init /\ [][NextOk]_vars

\* ------------------------------------------- the classifier, on its inputs
RECURSIVE Histories(_)
Histories(n) ==
    IF n = 0 THEN {<<>>}
    ELSE Histories(n - 1)
         \cup {Append(h, level) : h \in Histories(n - 1), level \in ConfidenceLevels}

InitPriority ==
    /\ SessionInit
    /\ initial_file = AbsentFile
    /\ data_file = EnsureDataFile(initial_file)
    /\ SaveIdle
    /\ ref_count \in 0..MaxRefCount
    /\ conf_trend \in Histories(MaxTrendLen)
    /\ priority = None

Classify ==
    /\ priority = None
    /\ priority' = get_revision_priority(ref_count, conf_trend)
    /\ UNCHANGED <<sessionVars, data_file, initial_file, ref_count, conf_trend,
                   saveVars>>

SpecPriority == InitPriority /\ [][Classify]_vars

\* ---------------------------- save_session in two sessions, step by step
InitConcurrent ==
    /\ SessionInit
    /\ initial_file \in {AbsentFile, OldFile}
    /\ data_file = EnsureDataFile(initial_file)
    /\ ClassifierIdle
    /\ SaveIdle

InSave(s) == save_pc[s] # "idle"

SaveFrame == UNCHANGED <<sessionVars, initial_file, classifierVars>>

\* lines 70-71: data = load_sessions(); data.append(entry)
SaveLoad(s) ==
    /\ save_pc[s] = "idle"
    /\ Len(completed) + Cardinality({o \in Sessions : InSave(o)}) < MaxSaves
    /\ data_file.valid
    /\ \E topic \in Topics, question \in Questions, subject \in Subjects,
          bloom_level \in BloomLevels, style \in Styles, answer \in Answers :
          LET entry == NewEntry(topic, subject, bloom_level, style, question, answer)
          IN /\ save_entry' = [save_entry EXCEPT ![s] = entry]
             /\ save_data' = [save_data EXCEPT ![s] =
                                  Append(load_sessions(data_file), entry)]
    /\ save_pc' = [save_pc EXCEPT ![s] = "loaded"]
    /\ overlapped' = (overlapped \/ \E o \in Sessions \ {s} : InSave(o))
    /\ UNCHANGED <<data_file, completed>>
    /\ SaveFrame

\* line 70 raises: json.load meets a file another session has open for writing
SaveLoadRaises(s) ==
    /\ save_pc[s] = "idle"
    /\ ~data_file.valid
    /\ UNCHANGED <<data_file, saveVars>>
    /\ SaveFrame

\* line 72: open(DATA_FILE, "w") truncates the file
SaveOpen(s) ==
    /\ save_pc[s] = "loaded"
    /\ data_file' = UnparsableFile
    /\ save_pc' = [save_pc EXCEPT ![s] = "opened"]
    /\ UNCHANGED <<save_data, save_entry, completed, overlapped>>
    /\ SaveFrame

\* line 73: json.dump(data, f, indent=4), and the file is closed.  Written
\* over what another session wrote since the file was opened, the bytes of
\* the two arrays may mix.
SaveDump(s) ==
    /\ save_pc[s] = "opened"
    /\ data_file' \in IF data_file.valid
                      THEN {WriteJson(save_data[s]), UnparsableFile}
                      ELSE {WriteJson(save_data[s])}
    /\ save_pc' = [save_pc EXCEPT ![s] = "idle"]
    /\ completed' = Append(completed, save_entry[s])
    /\ UNCHANGED <<save_data, save_entry, overlapped>>
    /\ SaveFrame

NextConcurrent ==
    \E s \in Sessions :
        \/ SaveLoad(s)
        \/ SaveLoadRaises(s)
        \/ SaveOpen(s)
        \/ SaveDump(s)

SpecConcurrent == InitConcurrent /\ [][NextConcurrent]_vars

\* ================================================================ claims

\* ---------------------------------------------------------------------- C1
\* the step appends n entries to the transcript and keeps the earlier ones
KeepsTranscript(n) ==
    /\ Len(chat_history') = Len(chat_history) + n
    /\ SubSeq(chat_history', 1, Len(chat_history)) = chat_history

\* C1: a completed primary call appends exactly one Student message and then
\* exactly one Assistant message to chat_history; a completed refinement call
\* appends exactly one Assistant message and no Student message; neither
\* changes or removes an earlier entry.
C1_TranscriptGrowth ==
    [][/\ AskQuestion =>
            /\ KeepsTranscript(2)
            /\ chat_history'[Len(chat_history) + 1].speaker = "Student"
            /\ chat_history'[Len(chat_history) + 2].speaker = "AI Assistant"
       /\ Refine =>
            /\ KeepsTranscript(1)
            /\ chat_history'[Len(chat_history) + 1].speaker = "AI Assistant"]_vars

\* a question answered and then refined: Student, Assistant, Assistant
C1_Witness ==
    /\ Len(chat_history) = 3
    /\ chat_history[1].speaker = "Student"
    /\ chat_history[2].speaker = "AI Assistant"
    /\ chat_history[3].speaker = "AI Assistant"
    /\ chat_history[3].tag = ResponseTag("simpler")
    /\ data_file.valid
    /\ Len(data_file.data) = Len(initial_file.data) + 1

\* ---------------------------------------------------------------------- C2
\* C2: Start New Session leaves chat_history, meta_log and confidence_log
\* empty and session_active true; Exit Session sets session_active false and
\* leaves chat_history, meta_log and confidence_log as they were.
C2_ResetAndExit ==
    [][/\ reset_session =>
            /\ chat_history' = <<>>
            /\ meta_log' = <<>>
            /\ confidence_log' = <<>>
            /\ session_active' = TRUE
       /\ exit_session =>
            /\ session_active' = FALSE
            /\ chat_history' = chat_history
            /\ meta_log' = meta_log
            /\ confidence_log' = confidence_log]_vars

\* an ended session that still holds its transcript, records and feedback
C2_Witness ==
    /\ ~session_active
    /\ chat_history # <<>>
    /\ meta_log # <<>>
    /\ confidence_log # <<>>

\* ---------------------------------------------------------------------- C3
\* C3: a run that raises (no reply, a malformed reply, a failed write of the
\* log file) leaves chat_history, meta_log, confidence_log, last_answer and
\* the log file as they were before the interaction.
C3_FailureChangesNothing ==
    [][(AskQuestionNoReply \/ AskQuestionSaveError \/ RefineNoReply) =>
            UNCHANGED <<chat_history, meta_log, confidence_log, last_answer,
                        data_file>>]_vars

\* ---------------------------------------------------------------------- C4
\* C4: from Exit Session to the next Start New Session no UI event changes
\* the transcript, the record list, the confidence log or the topic.
C4_FrozenAfterExit ==
    [][(~session_active /\ ~reset_session) =>
            UNCHANGED <<chat_history, meta_log, confidence_log,
                        session_topic>>]_vars

\* ---------------------------------------------------------------------- C5
\* the levels that occur in a confidence history
Occurring(history) == {history[i] : i \in DOMAIN history}

\* C5: get_revision_priority returns HIGH if refinement_count >= 2 or "Low"
\* occurs anywhere in the history; otherwise MEDIUM if refinement_count = 1 or
\* "Medium" occurs anywhere; otherwise LOW.  So a count of 2 or more gives
\* HIGH whatever the history, and a count of 0 with a history that is empty or
\* all "High" gives LOW.
C5_PriorityTable ==
    priority # None =>
        /\ priority \in {HIGH, MEDIUM, LOW}
        /\ priority = HIGH <=> (ref_count >= 2 \/ "Low" \in Occurring(conf_trend))
        /\ priority = MEDIUM <=>
              /\ ref_count < 2
              /\ "Low" \notin Occurring(conf_trend)
              /\ (ref_count = 1 \/ "Medium" \in Occurring(conf_trend))
        /\ ref_count >= 2 => priority = HIGH
        /\ (ref_count = 0 /\ Occurring(conf_trend) \subseteq {"High"}) => priority = LOW

\* a count of 2 with a history of "High" and "Medium" only is classified HIGH
C5_Witness ==
    /\ priority = HIGH
    /\ ref_count = 2
    /\ conf_trend = <<"High", "Medium">>

\* ---------------------------------------------------------------------- C6
\* the step refines the last record and no other
RefinesLatest ==
    /\ meta_log # <<>>
    /\ Len(meta_log') = Len(meta_log)
    /\ \A i \in 1..(Len(meta_log) - 1) : meta_log'[i] = meta_log[i]
    /\ LET before == meta_log[Len(meta_log)]
           after == meta_log'[Len(meta_log)]
       IN /\ after.refinement_count = before.refinement_count + 1
          /\ Len(after.refinements) = Len(before.refinements) + 1
          /\ SubSeq(after.refinements, 1, Len(before.refinements))
                = before.refinements
          /\ [after EXCEPT !.refinement_count = 0, !.refinements = <<>>]
                = [before EXCEPT !.refinement_count = 0, !.refinements = <<>>]

CountsMatch ==
    \A i \in 1..Len(meta_log) :
        meta_log[i].refinement_count = Len(meta_log[i].refinements)

Unrefined(entry) == [entry EXCEPT !.refinement_count = 0, !.refinements = <<>>]

FileExtendsInitial ==
    /\ data_file.exists
    /\ data_file.valid
    /\ Len(data_file.data) >= Len(initial_file.data) + Len(meta_log)
    /\ SubSeq(data_file.data, 1, Len(initial_file.data)) = initial_file.data
    /\ \A i \in 1..Len(meta_log) :
          data_file.data[Len(data_file.data) - Len(meta_log) + i]
             = Unrefined(meta_log[i])
    /\ \A i \in (Len(initial_file.data) + 1)..Len(data_file.data) :
          /\ data_file.data[i].refinement_count = 0
          /\ data_file.data[i].refinements = <<>>

\* C7: with one session and no failures the log file holds its initial
\* content (an empty array if it was absent) and then one record per
\* completed primary question, in order; a primary question appends exactly
\* its record, unrefined, and every other operation leaves the file alone, so
\* the file's records keep refinement_count 0 and no refinements.
C7_LogFileAppendOnly ==
    /\ []FileExtendsInitial
    /\ [][IF AskQuestion
          THEN /\ Len(meta_log') = Len(meta_log) + 1
               /\ data_file'.data = Append(data_file.data, Last(meta_log'))
          ELSE data_file' = data_file]_vars

\* the file kept what it held and gained this session's record, which stays
\* unrefined in the file after the record in memory was refined
C7_Witness ==
    /\ initial_file = OldFile
    /\ Len(data_file.data) = 2
    /\ data_file.data[1] = OldEntry
    /\ Len(meta_log) = 1
    /\ meta_log[1].refinement_count = 1
    /\ data_file.data[2].refinement_count = 0
    /\ data_file.data[2] = Unrefined(meta_log[1])

\* ---------------------------------------------------------------------- C8
\* no save_session call is in progress
AllIdle == \A s \in Sessions : save_pc[s] = "idle"

\* C8: two save_session calls that overlap can both return with only one of
\* the two records in the file (the witness); calls that never overlap leave
\* every record in the file, after what the file held, in the order of the calls.
C8_NoLossWithoutOverlap ==
    (AllIdle /\ ~overlapped) =>
        /\ data_file.valid
        /\ data_file.data = initial_file.data \o completed

\* both calls returned, the file is a valid array, and it holds one new record
C8_LostUpdate ==
    /\ AllIdle
    /\ overlapped
    /\ Len(completed) = 2
    /\ data_file.valid
    /\ Len(data_file.data) = Len(initial_file.data) + 1
    /\ Last(data_file.data) \in {completed[1], completed[2]}

\* ---------------------------------------------------------------------- C9
\* the question and answer-version headings of a summary, read off the records
Heading(n, label) == [kind |-> "Answer Version", n |-> n, label |-> label]

QuestionHeading(question) == [kind |-> "Question", n |-> 0, label |-> question]

ExpectedSections(entry) ==
    <<QuestionHeading(entry.question), Heading(1, "Main Explanation")>>
    \o [k \in 1..Len(entry.refinements) |->
           Heading(k + 1,
                   IF entry.refinements[k].mode = "simpler"
                   THEN "Simpler Explanation" ELSE "More Examples")]

RECURSIVE ExpectedOutline(_)
ExpectedOutline(log) ==
    IF log = <<>> THEN <<>>
    ELSE ExpectedSections(Head(log)) \o ExpectedOutline(Tail(log))

\* the same headings, and the priority lines, read off the summary text
IsHeading(line) == line.kind \in {"Question", "Answer Version"}

IsPriority(line) == line.kind = "Revision Priority"

Outline(text) ==
    LET lines == SelectSeq(text, IsHeading)
    IN [k \in 1..Len(lines) |->
           [kind |-> lines[k].kind, n |-> lines[k].n, label |-> lines[k].s]]

PriorityLines(text) ==
    LET lines == SelectSeq(text, IsPriority)
    IN [k \in 1..Len(lines) |-> lines[k].s]

C10_SameTextForEveryConsumer ==
    \A tSummary \in Instants : \A tPdf \in Later(tSummary) :
        meta_log # <<>> => pdf_story(tPdf) = BuildStory(summary_text(tSummary))

====
